---- MODULE Spec2Model ----
(***************************************************************************)
(* Model of src/index.js: one run of main(), i.e. the report cycle         *)
(*   requestReport -> pollStatus -> downloadToGCS -> loadCsvGzToBQ.        *)
(* An action is the code that runs between two suspension points (await):  *)
(* it consumes the answer of the pending call, runs the handler up to the  *)
(* next await and issues that call.  The reporting service, the object     *)
(* store streams and the warehouse job are the environment: their answers  *)
(* are drawn from small sets.                                              *)
(*                                                                         *)
(* Strings that the code inspects or builds (URLs, keys) are sequences of  *)
(* chunks; the string is the concatenation of its chunks.  The chunks are  *)
(* chosen so that the substring tests of the code (includes, startsWith)   *)
(* can be decided chunk by chunk.                                          *)
(*                                                                         *)
(* Spec is the run as a whole with the polling loop in full.  The rate     *)
(* limit backoff as a computation on the Retry-After header is SpecBackoff.*)
(***************************************************************************)
EXTENDS Integers, Sequences, FiniteSets, TLC

\* ---------------------------------------------------------------- bounds
\* number of HTTP 429 answers the service gives during one pollStatus call
Max429 == 2
\* largest everyday Retry-After value, in seconds, of the backoff computation
MaxRetryAfter == 40
\* largest number of rows of a report
MaxRows == 1

\* ------------------------------------------------------ program constants
\* while (tries < 60)
MaxTries == 60
\* await sleep(30 * 1000)
RunningSleepSeconds == 30
\* Number(res.headers.get('Retry-After') || 30)
DefaultRetryAfter == 30
\* largest delay, in milliseconds, that setTimeout takes (2^31 - 1)
TimerMaxMs == 2147483647

VARIABLES
  \* module constants read from process.env
  AUTH_KEY, BQ_PROJECT, BQ_DATASET, BQ_FINAL, BUCKET_NAME, HOST,
  \* main(): position, error caught by main().catch, process.exitCode,
  \* the steps of the run in the order their first call was issued
  pc, err, exitCode, steps,
  \* pollStatus(): locals and what the service has seen and answered
  reportId, url, fetched, tries, queries, n429, nRunning, sleepMs, sleeps30, res,
  \* downloadToGCS(): resolved content URL, write stream, body stream
  contentUrl, writeOpen, bodyErrored,
  \* loadCsvGzToBQ(): the warehouse job and the returned row count
  job, rowCount

VARIABLES
  \* the backoff of one 429 answer: position, Retry-After header, seconds
  \* asked of sleep(), delay the timer runs with
  bPc, bHeader, bSec, bDelayMs

VARIABLES
  \* the addressing of two runs side by side: per run its environment and
  \* clock, its position, ymd, objectPath, the file written, the URI loaded
  pIn, pPc, pYmd, pPath, pWrite, pLoad

backoffv == <<bPc, bHeader, bSec, bDelayMs>>
VARIABLES
  \* several runs of the program against one object store and one table:
  \* per run its environment and clock, position, error, POSTs sent and the
  \* query of the POST, the answer to it, the report id, status queries and
  \* GETs sent, the status of the download, whether a write stream was
  \* created, the load job; the objects of the bucket, the copies in the
  \* table, whether two runs for one date have been in flight together
  rIn, rPc, rErr, rPosts, rQs, rReq, rId, rPolls, rGets, rDl, rStream, rJob,
  objects, table, overlap

pathv == <<pIn, pPc, pYmd, pPath, pWrite, pLoad>>
runsv == <<rIn, rPc, rErr, rPosts, rQs, rReq, rId, rPolls, rGets, rDl, rStream, rJob>>
storev == <<objects, table, overlap>>
aux   == <<backoffv, pathv, runsv, storev>>

cfg   == <<AUTH_KEY, BQ_PROJECT, BQ_DATASET, BQ_FINAL, BUCKET_NAME, HOST>>
pollv == <<reportId, url, fetched, tries, queries, n429, nRunning, sleepMs, sleeps30, res>>
xferv == <<contentUrl, writeOpen, bodyErrored>>
loadv == <<job, rowCount>>
mainv == <<cfg, pc, err, exitCode, steps, pollv, xferv, loadv>>
vars  == <<mainv, aux>>

\* ---------------------------------------------------------------- strings
Has(s, c) == \E i \in 1..Len(s) : s[i] = c

\* process.env.X || dflt
EnvOr(v, dflt) == IF v = <<>> THEN dflt ELSE v

DefaultHost == <<"https://reports.system1.com">>
\* chunks that are a scheme and an authority
Origins == {"https://reports.system1.com", "https://s1.example", "https://cdn.example"}
\* chunks whose text begins with the four characters http
HttpChunks == Origins

\* encodeURIComponent: escapes every chunk that is a reserved character
EncodeChunk(c) ==
  CASE c = "&" -> "%26"
    [] c = "=" -> "%3D"
    [] c = "?" -> "%3F"
    [] c = "/" -> "%2F"
    [] OTHER   -> c
encodeURIComponent(s) == [i \in 1..Len(s) |-> EncodeChunk(s[i])]

\* String.prototype.toUpperCase on the status strings the service may send
ToUpperCase(s) ==
  CASE s = "running" -> "RUNNING"
    [] s = "Success" -> "SUCCESS"
    [] s = "failed"  -> "FAILED"
    [] s = "pending" -> "PENDING"
    [] OTHER         -> s

\* res.ok of fetch: the status is in the range 200-299
Ok(status) == status >= 200 /\ status <= 299


\* -------------------------------------------------- what the service sends
\* header value standing for "no Retry-After header"
Absent == -1
\* Retry-After header values: absent, or a decimal number of seconds
RetryAfterHeaders == {Absent, 0, 5}

\* HTTP status codes of the answers
HttpStatuses == {200, 429, 404, 500}

\* j.report_status of a status answer; "" is a missing or empty field
StatusStrings == {"RUNNING", "running", "SUCCESS", "Success", "FAILED", "failed",
                  "PENDING", "CANCELLED", ""}

\* j.content_url of a status answer: an absolute URL or a path on the service
\* host, with or without a query string, with or without a credential
UrlBases == {<<"/download/abc123">>, <<"https://cdn.example", "/r.csv.gz">>}
UrlQueries == {<<>>, <<"?", "x=1">>, <<"?", "auth_key=", "k9">>}
ContentUrls == {b \o q : b \in UrlBases, q \in UrlQueries}

\* the answers to GET .../status: <<>> is a missing content_url
StatusResponses ==
  [status : {429}, retryAfter : RetryAfterHeaders, report_status : {""}, content_url : {<<>>}]
  \cup
  [status : {404, 500}, retryAfter : {Absent}, report_status : {"", "RUNNING", "SUCCESS"},
   content_url : {<<>>, <<"/download/abc123">>}]
  \cup
  [status : {200}, retryAfter : {Absent}, report_status : {"SUCCESS"},
   content_url : ContentUrls \cup {<<>>}]
  \cup
  [status : {200}, retryAfter : {Absent}, report_status : StatusStrings,
   content_url : {<<>>, <<"/download/abc123">>}]

\* the answers to POST .../report: <<>> is a missing report_id
ReportIds == {<<"abc123">>, <<"r", "/", "7">>}
ReportResponses ==
  [status : {200}, report_id : ReportIds \cup {<<>>}]
  \cup
  [status : {429, 500}, report_id : {<<>>}]

NoRes == [status |-> 0, retryAfter |-> Absent, report_status |-> "", content_url |-> <<>>]
NoErr == [kind |-> "none", detail |-> NoRes]
NoJob == [state |-> "NONE", errorResult |-> FALSE, outputRows |-> Absent]

\* RAW_BUCKET ? RAW_BUCKET.replace(/^gs:\/\//, '') : ''
BucketName(raw) ==
  IF Len(raw) > 0 /\ raw[1] = "gs://" THEN SubSeq(raw, 2, Len(raw)) ELSE raw

\* values of GCS_BUCKET || GCS_BUCKET_NAME
RawBuckets == {<<>>, <<"gs://">>, <<"bucket">>, <<"gs://", "bucket">>}

\* ------------------------------------------------------------------- Init
\* values of process.env; <<>> is an unset variable
AuthKeys == {<<>>, <<"s3cr3t">>, <<"a", "&", "b">>}

\* the variables of the backoff computation when it is not under study
BackoffIdle == bPc = "idle" /\ bHeader = Absent /\ bSec = 0 /\ bDelayMs = 0

\* the variables of the addressing when it is not under study
PathIdle ==
  /\ pIn = <<>> /\ pPc = <<>> /\ pYmd = <<>>
  /\ pPath = <<>> /\ pWrite = <<>> /\ pLoad = <<>>

\* the variables of the several runs when they are not under study
RunsIdle ==
  /\ rIn = <<>> /\ rPc = <<>> /\ rErr = <<>> /\ rPosts = <<>> /\ rQs = <<>>
  /\ rReq = <<>> /\ rId = <<>> /\ rPolls = <<>> /\ rGets = <<>> /\ rDl = <<>>
  /\ rStream = <<>> /\ rJob = <<>>
  /\ objects = {} /\ table = <<>> /\ overlap = FALSE

AuxIdle == BackoffIdle /\ PathIdle /\ RunsIdle

Init ==
  /\ AuxIdle
  /\ AUTH_KEY \in AuthKeys
  /\ BQ_PROJECT \in {<<>>, <<"proj">>}
  /\ BQ_DATASET = EnvOr(<<>>, <<"rsoc_clicks">>)
  /\ BQ_FINAL = EnvOr(<<>>, <<"s1_ad_widget_daily">>)
  /\ BUCKET_NAME \in {BucketName(raw) : raw \in RawBuckets}
  /\ HOST \in {EnvOr(<<>>, DefaultHost), EnvOr(<<"https://s1.example">>, DefaultHost)}
  /\ pc = "main" /\ err = NoErr /\ exitCode = 0 /\ steps = <<>>
  /\ reportId = <<>> /\ url = <<>> /\ fetched = <<>>
  /\ tries = 0 /\ queries = 0 /\ n429 = 0 /\ nRunning = 0
  /\ sleepMs = 0 /\ sleeps30 = 0 /\ res = NoRes
  /\ contentUrl = <<>> /\ writeOpen = FALSE /\ bodyErrored = FALSE
  /\ job = NoJob /\ rowCount = Absent

\* ---------------------------------------------------------------- helpers
\* main().catch(e => { console.error(...); process.exitCode = 1; })
Throw(kind, detail) ==
  /\ pc' = "failed"
  /\ err' = [kind |-> kind, detail |-> detail]
  /\ exitCode' = 1

\* a guard that forgets the bucket
MissingEnv_NoBucket ==
  \/ AUTH_KEY = <<>> \/ BQ_PROJECT = <<>> \/ BQ_DATASET = <<>> \/ BQ_FINAL = <<>>

\* the guard of main()
MissingEnv ==
  \/ AUTH_KEY = <<>> \/ BQ_PROJECT = <<>> \/ BQ_DATASET = <<>>
  \/ BQ_FINAL = <<>> \/ BUCKET_NAME = <<>>

\* const url = `${HOST}/partner/v1/report/${enc(reportId)}/status?auth_key=${enc(auth_key)}`
StatusUrl(id, auth_key) ==
  HOST \o <<"/partner/v1/report/">> \o encodeURIComponent(id)
       \o <<"/status", "?", "auth_key=">> \o encodeURIComponent(auth_key)

\* a loop that tests the counter with <= instead of <
WhileCond_Inclusive(t) == t <= MaxTries

\* while (tries < 60)
WhileCond(t) == t < MaxTries

\* Number(res.headers.get('Retry-After') || 30)
RetryAfterSeconds(h) == IF h = Absent THEN DefaultRetryAfter ELSE h

\* (ra + 1) * 1000
BackoffMs(h) == (RetryAfterSeconds(h) + 1) * 1000

\* a 429 that is counted as an attempt
TriesAfter429_Counted(t) == t + 1

\* tries after a 429 answer: the code continues without touching the counter
TriesAfter429(t) == t

\* a RUNNING branch that forgets the increment
TriesAfterRunning_Forgotten(t) == t

\* tries++ after the sleep that follows a RUNNING answer
TriesAfterRunning(t) == t + 1

\* const s = (j.report_status || '').toUpperCase()
NormalStatus(r) == ToUpperCase(r.report_status)

\* a resolution that appends the credential without looking
WithCredential_Always(cu, auth_key) ==
  cu \o <<(IF Has(cu, "?") THEN "&" ELSE "?")>>
     \o <<"auth_key=">> \o encodeURIComponent(auth_key)

\* let cu = j.content_url; if (!cu.includes('auth_key=')) cu += ...
WithCredential(cu, auth_key) ==
  IF Has(cu, "auth_key=") THEN cu
  ELSE cu \o <<(IF Has(cu, "?") THEN "&" ELSE "?")>>
          \o <<"auth_key=">> \o encodeURIComponent(auth_key)

\* a resolution that never prepends the host
WithHost_Never(cu) == cu

\* return cu.startsWith('http') ? cu : `${HOST}${cu}`
WithHost(cu) == IF Len(cu) > 0 /\ cu[1] \in HttpChunks THEN cu ELSE HOST \o cu

ResolveContentUrl(cu, auth_key) == WithHost(WithCredential(cu, auth_key))


\* the head of the polling loop with counter value t: either the next status
\* query is issued, or the loop ends and pollStatus throws the timeout
LoopHead(t, u) ==
  IF WhileCond(t)
  THEN /\ pc' = "await_status"
       /\ queries' = queries + 1
       /\ fetched' = u
       /\ UNCHANGED <<err, exitCode>>
  ELSE /\ Throw("Timed out waiting for SUCCESS", NoRes)
       /\ UNCHANGED <<queries, fetched>>

\* ---------------------------------------------------------------- actions
\* main() up to its first await: the guard, then requestReport issues the POST
MainStart ==
  /\ pc = "main"
  /\ IF MissingEnv
     THEN Throw("Missing env", NoRes) /\ UNCHANGED steps
     ELSE /\ pc' = "await_request"
          /\ steps' = Append(steps, "request")
          /\ UNCHANGED <<err, exitCode>>
  /\ UNCHANGED <<aux, cfg, pollv, xferv, loadv>>

\* the answer to the POST; on success pollStatus starts and issues its first query
RequestResponse ==
  /\ pc = "await_request"
  /\ \E r \in ReportResponses :
       IF ~Ok(r.status)
       THEN /\ Throw("Report request failed", NoRes)
            /\ UNCHANGED <<steps, pollv>>
       ELSE IF r.report_id = <<>>
       THEN /\ Throw("No report_id", NoRes)
            /\ UNCHANGED <<steps, pollv>>
       ELSE /\ reportId' = r.report_id
            /\ url' = StatusUrl(r.report_id, AUTH_KEY)
            /\ tries' = 0
            /\ steps' = Append(steps, "poll")
            /\ LoopHead(0, url')
            /\ UNCHANGED <<n429, nRunning, sleepMs, sleeps30, res>>
  /\ UNCHANGED <<aux, cfg, xferv, loadv>>

\* a dispatch that keeps polling on FAILED
Classify_FailedRetried(r) ==
  IF r.status = 429 THEN "rate_limited"
  ELSE IF ~Ok(r.status) THEN "status_failed"
  ELSE IF NormalStatus(r) = "SUCCESS" /\ r.content_url # <<>> THEN "success"
  ELSE IF NormalStatus(r) \in {"RUNNING", "FAILED"} THEN "running"
  ELSE "unexpected"

\* a dispatch that keeps polling on every status it does not know
Classify_UnknownPolled(r) ==
  IF r.status = 429 THEN "rate_limited"
  ELSE IF ~Ok(r.status) THEN "status_failed"
  ELSE IF NormalStatus(r) = "SUCCESS" /\ r.content_url # <<>> THEN "success"
  ELSE IF NormalStatus(r) = "FAILED" THEN "failed"
  ELSE "running"

\* a dispatch that reads the body before it tests res.ok
Classify_BodyFirst(r) ==
  IF r.status = 429 THEN "rate_limited"
  ELSE IF NormalStatus(r) = "SUCCESS" /\ r.content_url # <<>> THEN "success"
  ELSE IF NormalStatus(r) = "FAILED" THEN "failed"
  ELSE IF NormalStatus(r) = "RUNNING" THEN "running"
  ELSE IF ~Ok(r.status) THEN "status_failed"
  ELSE "unexpected"

\* the branch of the loop body that handles answer r, in the order of the tests
Classify(r) ==
  IF r.status = 429 THEN "rate_limited"
  ELSE IF ~Ok(r.status) THEN "status_failed"
  ELSE IF NormalStatus(r) = "SUCCESS" /\ r.content_url # <<>> THEN "success"
  ELSE IF NormalStatus(r) = "FAILED" THEN "failed"
  ELSE IF NormalStatus(r) = "RUNNING" THEN "running"
  ELSE "unexpected"

\* the answer to a status query, handled up to the next await
StatusResponse ==
  /\ pc = "await_status"
  /\ \E r \in StatusResponses :
       /\ r.status = 429 => n429 < Max429
       /\ res' = r
       /\ CASE Classify(r) = "rate_limited" ->
                 /\ sleepMs' = BackoffMs(r.retryAfter)
                 /\ n429' = n429 + 1
                 /\ pc' = "sleep_429"
                 /\ UNCHANGED <<err, exitCode, steps, nRunning, contentUrl>>
            [] Classify(r) = "status_failed" ->
                 /\ Throw("Status failed", r)
                 /\ UNCHANGED <<steps, n429, nRunning, sleepMs, contentUrl>>
            [] Classify(r) = "success" ->
                 /\ contentUrl' = ResolveContentUrl(r.content_url, AUTH_KEY)
                 /\ pc' = "await_download"
                 /\ steps' = Append(steps, "download")
                 /\ UNCHANGED <<err, exitCode, n429, nRunning, sleepMs>>
            [] Classify(r) = "failed" ->
                 /\ Throw("Report FAILED", NoRes)
                 /\ UNCHANGED <<steps, n429, nRunning, sleepMs, contentUrl>>
            [] Classify(r) = "running" ->
                 /\ sleepMs' = RunningSleepSeconds * 1000
                 /\ nRunning' = nRunning + 1
                 /\ pc' = "sleep_running"
                 /\ UNCHANGED <<err, exitCode, steps, n429, contentUrl>>
            [] OTHER ->
                 /\ Throw("Unexpected status", r)
                 /\ UNCHANGED <<steps, n429, nRunning, sleepMs, contentUrl>>
  /\ UNCHANGED <<aux, cfg, reportId, url, fetched, tries, queries, sleeps30,
                 writeOpen, bodyErrored, loadv>>

\* the backoff after a 429 is over: continue
Sleep429Done ==
  /\ pc = "sleep_429"
  /\ tries' = TriesAfter429(tries)
  /\ LoopHead(tries', url)
  /\ UNCHANGED <<aux, cfg, steps, reportId, url, n429, nRunning, sleepMs, sleeps30, res,
                 xferv, loadv>>

\* the 30 s sleep after RUNNING is over: tries++; continue
SleepRunningDone ==
  /\ pc = "sleep_running"
  /\ sleeps30' = sleeps30 + 1
  /\ tries' = TriesAfterRunning(tries)
  /\ LoopHead(tries', url)
  /\ UNCHANGED <<aux, cfg, steps, reportId, url, n429, nRunning, sleepMs, res,
                 xferv, loadv>>


\* the answer to GET contentUrl; on success the write stream is created and
\* res.body is piped into it
DownloadResponse ==
  /\ pc = "await_download"
  /\ \E status \in HttpStatuses :
       IF ~Ok(status)
       THEN /\ Throw("Download failed", NoRes)
            /\ UNCHANGED <<steps, writeOpen>>
       ELSE /\ writeOpen' = TRUE
            /\ steps' = Append(steps, "write")
            /\ pc' = "piping"
            /\ UNCHANGED <<err, exitCode>>
  /\ UNCHANGED <<aux, cfg, pollv, contentUrl, bodyErrored, loadv>>

\* what the promise of downloadToGCS does when the body stream emits 'error':
\* pipe() returns the write stream, so both handlers are on the write stream
\* and none is on res.body.  The promise stays pending.
OnBodyError ==
  /\ bodyErrored' = TRUE
  /\ UNCHANGED <<pc, err, exitCode>>

\* what it does when the write stream emits 'error': reject
OnWriteError ==
  /\ Throw("write stream error", NoRes)
  /\ writeOpen' = FALSE

\* 'finish' of the write stream: resolve; main goes on to loadCsvGzToBQ, which
\* submits the load job.  pipe() ends the write stream only when the body
\* ends, so there is no 'finish' once the body has failed.
WriteFinish ==
  /\ pc = "piping" /\ ~bodyErrored
  /\ writeOpen' = FALSE
  /\ steps' = Append(steps, "load")
  /\ pc' = "await_createJob"
  /\ UNCHANGED <<aux, cfg, err, exitCode, pollv, contentUrl, bodyErrored, loadv>>

\* 'error' of the write stream (also possible after the body has failed, when
\* the store gives up on the unfinished upload)
WriteError ==
  /\ pc = "piping"
  /\ OnWriteError
  /\ UNCHANGED <<aux, cfg, steps, pollv, contentUrl, bodyErrored, loadv>>

\* 'error' of res.body, the download's body stream
BodyError ==
  /\ pc = "piping" /\ ~bodyErrored
  /\ OnBodyError
  /\ UNCHANGED <<aux, cfg, steps, pollv, contentUrl, writeOpen, loadv>>

\* const [job] = await bq.createJob(jobConfig): the job is inserted and runs
\* in the warehouse, or the submission is rejected
CreateJobResponse ==
  /\ pc = "await_createJob"
  /\ \/ /\ job' = [state |-> "RUNNING", errorResult |-> FALSE, outputRows |-> Absent]
        /\ pc' = "await_metadata"
        /\ UNCHANGED <<err, exitCode>>
     \/ /\ Throw("createJob rejected", NoRes)
        /\ UNCHANGED job
  /\ UNCHANGED <<aux, cfg, steps, pollv, xferv, rowCount>>

\* the warehouse finishes the job: rows appended, or an errorResult
JobProgress ==
  /\ job.state = "RUNNING"
  /\ \/ \E n \in 0..MaxRows :
          job' = [state |-> "DONE", errorResult |-> FALSE, outputRows |-> n]
     \/ job' = [state |-> "DONE", errorResult |-> TRUE, outputRows |-> Absent]
  /\ UNCHANGED <<aux, cfg, pc, err, exitCode, steps, pollv, xferv, rowCount>>

\* Number(meta.statistics?.load?.outputRows || 0)
OutputRows(meta) == IF meta.outputRows = Absent THEN 0 ELSE meta.outputRows

\* the outcome of loadCsvGzToBQ on the metadata read once after createJob:
\* TRUE when it throws the load error
LoadThrows(meta) == meta.errorResult

\* const [meta] = await job.getMetadata(): the job as it is now
MetadataResponse ==
  /\ pc = "await_metadata"
  /\ \/ IF LoadThrows(job)
        THEN Throw("BQ load error", NoRes) /\ UNCHANGED rowCount
        ELSE /\ rowCount' = OutputRows(job)
             /\ pc' = "done"
             /\ UNCHANGED <<err, exitCode>>
     \/ /\ Throw("getMetadata rejected", NoRes)
        /\ UNCHANGED rowCount
  /\ UNCHANGED <<aux, cfg, steps, pollv, xferv, job>>

Next ==
  \/ MainStart
  \/ RequestResponse
  \/ StatusResponse
  \/ Sleep429Done
  \/ SleepRunningDone
  \/ DownloadResponse
  \/ WriteFinish
  \/ WriteError
  \/ BodyError
  \/ CreateJobResponse
  \/ JobProgress
  \/ MetadataResponse

Spec == Init /\ [][Next]_vars


\* ================================================================ claims
FiveSteps == <<"request", "poll", "download", "write", "load">>

\* a URL with a scheme and an authority in front
FullyQualified(u) == Len(u) > 0 /\ u[1] \in Origins

\* a URL that carries an auth_key query parameter with a value
HasCredential(u) == \E i \in 1..(Len(u) - 1) : u[i] = "auth_key="

\* the last status answer was SUCCESS with a content_url
GotSuccess ==
  /\ res.status = 200 /\ res.report_status = "SUCCESS" /\ res.content_url # <<>>

\* pollStatus has returned: main went on to the download
PollReturned == Len(steps) >= 3 /\ steps[3] = "download"

TimedOut == err.kind = "Timed out waiting for SUCCESS"

\* C1 as stated: after k RUNNING answers, k up to and including the bound of
\* 60, and any number of 429 answers, pollStatus still queries, so that the
\* SUCCESS that follows makes it return a fully qualified URL with credential.
C1_AsStated ==
  /\ TimedOut => nRunning > MaxTries
  /\ GotSuccess => /\ PollReturned
                   /\ FullyQualified(contentUrl)
                   /\ HasCredential(contentUrl)

\* C1 amended: the same for k RUNNING answers with k < 60 (at most 59): no
\* timeout before the 60th RUNNING answer, each such answer is followed by
\* another query, and a SUCCESS with content_url makes pollStatus return a
\* fully qualified URL that carries the credential.
C1_ReturnsUrlBelowBound ==
  /\ TimedOut => nRunning >= MaxTries
  /\ (pc = "await_status" /\ nRunning < MaxTries) => queries = nRunning + n429 + 1
  /\ GotSuccess => /\ PollReturned
                   /\ err.kind \notin {"Timed out waiting for SUCCESS", "Report FAILED",
                                       "Unexpected status", "Status failed"}
                   /\ FullyQualified(contentUrl)
                   /\ HasCredential(contentUrl)

\* k = 59 RUNNING answers and 429 answers in between, then a SUCCESS with a
\* relative content_url without credential: pollStatus has returned
C1_Witness ==
  /\ GotSuccess /\ PollReturned
  /\ nRunning = MaxTries - 1 /\ n429 >= 1
  /\ res.content_url = <<"/download/abc123">>
  /\ FullyQualified(contentUrl) /\ HasCredential(contentUrl)

\* C2 as stated: the attempt cap bounds the number of status queries of one
\* pollStatus call, whatever the service answers, 429 included.
C2_QueriesBoundedByCap == queries <= MaxTries

\* C3: a 429 answer never consumes an attempt: handling it and the backoff
\* leave tries unchanged, the same status URL is queried again, and no
\* failure of pollStatus comes from a 429.
C3_RateLimitFree ==
  /\ [](res.status = 429 => /\ pc \in {"sleep_429", "await_status"}
                            /\ err.kind = "none" /\ exitCode = 0
                            /\ tries = sleeps30)
  /\ [][(pc = "await_status" /\ pc' = "sleep_429") => tries' = tries]_vars
  /\ [][(pc = "sleep_429" /\ pc' # pc) =>
          /\ tries' = tries
          /\ pc' = "await_status"
          /\ queries' = queries + 1
          /\ fetched' = fetched /\ fetched' = url]_vars

\* two 429 answers among RUNNING answers, and the query repeated after the backoff
C3_Witness ==
  /\ res.status = 429 /\ pc = "await_status"
  /\ n429 >= 2 /\ nRunning >= 2 /\ tries = nRunning


\* the last status answer was an HTTP success with report_status FAILED
GotFailed == res.status \in 200..299 /\ res.report_status = "FAILED"

\* C4: a FAILED status ends pollStatus at once with the report-failed error,
\* whatever came before and whatever budget is left: no sleep and no query
\* follows, and the run does no download, no store write and no load.
C4_FailedIsTerminal ==
  /\ [](GotFailed => /\ pc = "failed" /\ err.kind = "Report FAILED" /\ exitCode = 1
                     /\ steps = <<"request", "poll">>
                     /\ contentUrl = <<>> /\ ~writeOpen /\ job = NoJob
                     /\ queries = nRunning + n429 + 1
                     /\ sleeps30 = nRunning)
  /\ [][GotFailed => UNCHANGED vars]_vars
  /\ [][(pc = "await_status" /\ GotFailed') =>
          /\ tries' = tries /\ queries' = queries
          /\ sleeps30' = sleeps30 /\ sleepMs' = sleepMs]_vars

\* FAILED after RUNNING and 429 answers, with budget left
C4_Witness ==
  /\ GotFailed /\ pc = "failed"
  /\ nRunning >= 2 /\ n429 >= 1 /\ tries < MaxTries - 1

\* C5: a service that answers RUNNING to every query makes pollStatus end
\* with the timeout, after exactly 60 queries, each followed by one 30 s
\* sleep and one increment of tries; there is no 61st query.
C5_TimeoutAfterSixty ==
  /\ n429 = 0 => queries <= MaxTries
  /\ (n429 = 0 /\ nRunning = MaxTries /\ pc # "sleep_running") =>
       /\ pc = "failed" /\ TimedOut /\ exitCode = 1
       /\ queries = MaxTries /\ sleeps30 = MaxTries /\ tries = MaxTries
       /\ sleepMs = RunningSleepSeconds * 1000
       /\ contentUrl = <<>>
  /\ TimedOut => nRunning = MaxTries /\ tries = MaxTries /\ sleeps30 = MaxTries

\* sixty RUNNING answers, no 429: timed out
C5_Witness ==
  /\ TimedOut /\ pc = "failed" /\ n429 = 0 /\ queries = MaxTries /\ nRunning = MaxTries

\* an HTTP success whose answer pollStatus gives up on, read letter by letter
UnexpectedAsStated(r) ==
  /\ r.status \in 200..299
  /\ \/ r.report_status \notin {"RUNNING", "SUCCESS", "FAILED"}
     \/ r.report_status = "SUCCESS" /\ r.content_url = <<>>

\* the same with the status compared in upper case, as the code compares it
UnexpectedUpper(r) ==
  /\ r.status \in 200..299
  /\ \/ ToUpperCase(r.report_status) \notin {"RUNNING", "SUCCESS", "FAILED"}
     \/ ToUpperCase(r.report_status) = "SUCCESS" /\ r.content_url = <<>>

\* C6 as stated: an HTTP success whose report_status is not one of the
\* strings RUNNING, SUCCESS, FAILED (or is SUCCESS without content_url) ends
\* pollStatus at once with the unexpected-status failure carrying the answer.
C6_AsStated ==
  UnexpectedAsStated(res) =>
    /\ pc = "failed" /\ err.kind = "Unexpected status" /\ err.detail = res

\* C6 amended: the report_status is compared after conversion to upper case.
\* An HTTP success whose upper-cased report_status is not one of RUNNING,
\* SUCCESS, FAILED, or is SUCCESS without content_url, ends pollStatus at once
\* with the unexpected-status failure carrying the raw answer; it is not
\* slept on, not retried and not counted as an attempt.
C6_UnexpectedIsTerminal ==
  /\ [](UnexpectedUpper(res) =>
          /\ pc = "failed" /\ err.kind = "Unexpected status" /\ err.detail = res
          /\ exitCode = 1 /\ steps = <<"request", "poll">>
          /\ tries = nRunning /\ sleeps30 = nRunning
          /\ queries = nRunning + n429 + 1)
  /\ [][UnexpectedUpper(res) => UNCHANGED vars]_vars
  /\ [][(pc = "await_status" /\ UnexpectedUpper(res')) =>
          /\ tries' = tries /\ queries' = queries /\ nRunning' = nRunning
          /\ sleeps30' = sleeps30 /\ sleepMs' = sleepMs]_vars

\* PENDING after a RUNNING answer; and SUCCESS without content_url
C6_Witness ==
  /\ pc = "failed" /\ err.kind = "Unexpected status"
  /\ \/ res.report_status = "PENDING" /\ nRunning >= 1
     \/ res.report_status = "SUCCESS" /\ res.content_url = <<>> /\ n429 >= 1

\* the last status answer was neither an HTTP success nor a 429
GotHttpError == res.status # 0 /\ res.status \notin 200..299 /\ res.status # 429

\* C7: a status answer that is neither HTTP success nor 429 ends pollStatus
\* at once with the status-request failure: no retry, no backoff sleep, and
\* the body is not read as a report status, whatever the value of tries.
C7_HttpErrorIsTerminal ==
  /\ [](GotHttpError =>
          /\ pc = "failed" /\ err.kind = "Status failed" /\ err.detail = res
          /\ exitCode = 1 /\ steps = <<"request", "poll">>
          /\ contentUrl = <<>>
          /\ tries = nRunning /\ sleeps30 = nRunning
          /\ queries = nRunning + n429 + 1)
  /\ [][GotHttpError => UNCHANGED vars]_vars
  /\ [][(pc = "await_status" /\ GotHttpError') =>
          /\ tries' = tries /\ queries' = queries /\ nRunning' = nRunning
          /\ n429' = n429 /\ sleeps30' = sleeps30 /\ sleepMs' = sleepMs]_vars

\* a 500 whose body says RUNNING, after attempts were used
C7_Witness ==
  /\ GotHttpError /\ pc = "failed" /\ err.kind = "Status failed"
  /\ res.status = 500 /\ res.report_status = "RUNNING" /\ tries >= 2


IsPrefix(a, b) == Len(a) <= Len(b) /\ \A i \in 1..Len(a) : a[i] = b[i]

\* the warehouse job of this run ended with an error
LoadFailed == job.state = "DONE" /\ job.errorResult

\* a step of the run has failed: an error was thrown, or the transfer broke
StepFailed == err.kind # "none" \/ bodyErrored

\* C8: the steps run in the order request, poll, download, write, load; the
\* first failing step aborts the run with a non-zero exit status and no later
\* step starts; 'Done.' is reached only when all five steps succeeded.
C8_SequentialOrAborted ==
  /\ IsPrefix(steps, FiveSteps)
  /\ StepFailed => (pc = "failed" /\ exitCode = 1)
  /\ pc = "done" => /\ steps = FiveSteps /\ exitCode = 0 /\ err.kind = "none"
                    /\ ~writeOpen /\ ~bodyErrored
                    /\ job.state = "DONE" /\ ~job.errorResult

\* C9: the run completes only when the load job has finished without error,
\* and the row count returned is the number of rows the warehouse loaded; a
\* load job that ends with an error makes the run fail with the load error.
C9_DoneOnlyAfterLoad ==
  /\ pc = "done" => /\ job.state = "DONE" /\ ~job.errorResult
                    /\ rowCount = job.outputRows
  /\ (pc \in {"done", "failed"} /\ LoadFailed /\ err.kind # "getMetadata rejected") =>
       (pc = "failed" /\ err.kind = "BQ load error" /\ rowCount = Absent)

\* C10: every stream error of the transfer, of the body stream as well as of
\* the write stream, makes downloadToGCS fail, so that the run aborts without
\* a load; and the write has finished when downloadToGCS returns.
C10_StreamErrorFails ==
  /\ bodyErrored => (pc = "failed" /\ err.kind = "write stream error" /\ exitCode = 1)
  /\ err.kind = "write stream error" => (pc = "failed" /\ job = NoJob)
  /\ (Len(steps) = 5) => ~writeOpen


Count(s, c) == Cardinality({i \in 1..Len(s) : s[i] = c})

\* the location embeds a credential
Embeds(cu) == Has(cu, "auth_key=")

C19_AsStated ==
  /\ tries \in 0..MaxTries
  /\ tries = nRunning
  /\ queries - n429 <= MaxTries

\* C19 amended: as stated, except that tries equals the number of RUNNING
\* answers seen so far at every status query and at the end of pollStatus;
\* during the 30 s sleep that follows a RUNNING answer it is one less,
\* because the increment comes after the sleep.
C19_CounterInvariant ==
  /\ [](/\ tries \in 0..MaxTries
        /\ pc \in {"main", "await_request"} => tries = 0
        /\ tries = sleeps30
        /\ pc = "sleep_running" => nRunning = tries + 1
        /\ pc # "sleep_running" => nRunning = tries
        /\ queries - n429 <= MaxTries)
  /\ [][tries' # tries =>
          /\ tries' = tries + 1
          /\ pc = "sleep_running"
          /\ res.status \in 200..299 /\ ToUpperCase(res.report_status) = "RUNNING"]_vars

\* the counter has reached the bound with 429 answers in between
C19_Witness ==
  /\ tries = MaxTries /\ nRunning = MaxTries /\ n429 >= 1 /\ TimedOut


\* ======================================================== SpecBackoff
\* The 429 branch of pollStatus as a computation on the Retry-After header:
\*   const ra = Number(res.headers.get('Retry-After') || 30);
\*   await sleep((ra + 1) * 1000);   with sleep = ms => setTimeout(r, ms)
\* Durations asked of sleep() are whole seconds here, so they are kept in
\* seconds; the delay the timer runs with is in milliseconds.

\* the variables of the run when only a computation of it is under study
MainIdle ==
  /\ AUTH_KEY = <<"s3cr3t">> /\ BQ_PROJECT = <<"proj">>
  /\ BQ_DATASET = <<"rsoc_clicks">> /\ BQ_FINAL = <<"s1_ad_widget_daily">>
  /\ BUCKET_NAME = <<"bucket">> /\ HOST = DefaultHost
  /\ pc = "main" /\ err = NoErr /\ exitCode = 0 /\ steps = <<>>
  /\ reportId = <<>> /\ url = <<>> /\ fetched = <<>>
  /\ tries = 0 /\ queries = 0 /\ n429 = 0 /\ nRunning = 0
  /\ sleepMs = 0 /\ sleeps30 = 0 /\ res = NoRes
  /\ contentUrl = <<>> /\ writeOpen = FALSE /\ bodyErrored = FALSE
  /\ job = NoJob /\ rowCount = Absent

\* Retry-After values: none, everyday ones, and ones around the largest
\* number of seconds whose milliseconds a timer takes
RetryAfterValues ==
  {Absent} \cup 0..MaxRetryAfter
           \cup {(TimerMaxMs \div 1000) - 2, (TimerMaxMs \div 1000) - 1, TimerMaxMs \div 1000}

\* ra + 1, the seconds asked of sleep()
BackoffSeconds(h) == RetryAfterSeconds(h) + 1

\* setTimeout(r, ms) with ms = sec * 1000: a delay above 2^31 - 1 or below 1
\* is set to 1
TimerDelayMs(sec) ==
  IF sec > TimerMaxMs \div 1000 \/ sec * 1000 < 1 THEN 1 ELSE sec * 1000

InitBackoff ==
  /\ MainIdle /\ PathIdle /\ RunsIdle
  /\ bPc = "got429" /\ bHeader \in RetryAfterValues /\ bSec = 0 /\ bDelayMs = 0

\* the 429 branch up to its await: the timer is started
BackoffSleep ==
  /\ bPc = "got429"
  /\ bSec' = BackoffSeconds(bHeader)
  /\ bDelayMs' = TimerDelayMs(bSec')
  /\ bPc' = "sleeping"
  /\ UNCHANGED <<mainv, pathv, runsv, storev, bHeader>>

\* the timer fires, not before its delay is over: continue, the next query
BackoffRequery ==
  /\ bPc = "sleeping"
  /\ bPc' = "requery"
  /\ UNCHANGED <<mainv, pathv, runsv, storev, bHeader, bSec, bDelayMs>>

NextBackoff ==
  \/ BackoffSleep
  \/ BackoffRequery

SpecBackoff == InitBackoff /\ [][NextBackoff]_vars

\* C15: after a 429 with Retry-After: N the next status query comes no earlier
\* than N + 1 seconds later, for every N; without the header the wait is 31 s.
C15_WaitsRetryAfterPlusOne ==
  bPc = "requery" =>
    /\ bHeader = Absent => bDelayMs = (DefaultRetryAfter + 1) * 1000
    /\ bHeader # Absent => bDelayMs \div 1000 >= bHeader + 1


\* =========================================================== SpecPath
\* The addressing of main(): targetYMD(), objectPath, the file that
\* downloadToGCS writes and the URI that loadCsvGzToBQ reads, computed for
\* two runs side by side from their environment and clock.
PathRuns == {"a", "b"}

\* instants of the clock, as toISOString() prints them
Instants == {<<"2024-05-01", "T", "23:59:59.000Z">>, <<"2024-05-02", "T", "00:00:01.000Z">>}

\* the environment and surroundings of a run; <<>> is an unset variable
PathInputs ==
  [GCS_PREFIX  : {<<>>, <<"raw">>},
   REPORT_TYPE : {<<>>, <<"rsoc">>},
   SITE_NAME   : {<<>>, <<"acme">>},
   DATE        : {<<>>, <<"2024-05-01">>, <<"2024-05-02">>},
   now         : Instants,
   other       : {[bucket |-> <<"bucket">>, reportId |-> <<"abc123">>],
                  [bucket |-> <<"lake">>, reportId |-> <<"r", "/", "7">>]}]

\* s.slice(0, 10) of an ISO time stamp: its first chunk has ten characters
Slice10(iso) == <<iso[1]>>

\* targetYMD(): if (DATE) return DATE; return new Date().toISOString().slice(0,10)
targetYMD(DATE, now) == IF DATE # <<>> THEN DATE ELSE Slice10(now)

\* an object path that leaves out the date
ObjectPath_NoDate(prefix, reportType, site, ymd) ==
  prefix \o <<"/">> \o reportType \o <<"/">> \o site \o <<".csv.gz">>

\* `${GCS_PREFIX}/${REPORT_TYPE}/${SITE_NAME}/${ymd}.csv.gz`
ObjectPath(prefix, reportType, site, ymd) ==
  prefix \o <<"/">> \o reportType \o <<"/">> \o site \o <<"/">> \o ymd \o <<".csv.gz">>

\* `gs://${BUCKET_NAME}/${objectPath}`
GcsUri(bucket, objectPath) == <<"gs://">> \o bucket \o <<"/">> \o objectPath

\* the module constants of a run with environment in
PrefixOf(in) == EnvOr(in.GCS_PREFIX, <<"s1">>)
ReportTypeOf(in) == EnvOr(in.REPORT_TYPE, <<"syndication_rsoc_online_ad_widget_daily">>)
SiteOf(in) == EnvOr(in.SITE_NAME, <<"site">>)

InitPath ==
  /\ MainIdle /\ BackoffIdle /\ RunsIdle
  /\ pIn \in [PathRuns -> PathInputs]
  /\ pPc = [r \in PathRuns |-> "main"]
  /\ pYmd = [r \in PathRuns |-> <<>>]
  /\ pPath = [r \in PathRuns |-> <<>>]
  /\ pWrite = [r \in PathRuns |-> [bucket |-> <<>>, file |-> <<>>]]
  /\ pLoad = [r \in PathRuns |-> <<>>]

\* const ymd = targetYMD()
PathResolveDate(r) ==
  /\ pPc[r] = "main"
  /\ pYmd' = [pYmd EXCEPT ![r] = targetYMD(pIn[r].DATE, pIn[r].now)]
  /\ pPc' = [pPc EXCEPT ![r] = "ymd"]
  /\ UNCHANGED <<mainv, backoffv, runsv, storev, pIn, pPath, pWrite, pLoad>>

\* objectPath; storage.bucket(bucketName).file(objectPath); gcsUri; sourceUris
PathCompose(r) ==
  /\ pPc[r] = "ymd"
  /\ pPath' = [pPath EXCEPT ![r] =
                 ObjectPath(PrefixOf(pIn[r]), ReportTypeOf(pIn[r]), SiteOf(pIn[r]), pYmd[r])]
  /\ pWrite' = [pWrite EXCEPT ![r] = [bucket |-> pIn[r].other.bucket, file |-> pPath'[r]]]
  /\ pLoad' = [pLoad EXCEPT ![r] = GcsUri(pIn[r].other.bucket, pPath'[r])]
  /\ pPc' = [pPc EXCEPT ![r] = "addressed"]
  /\ UNCHANGED <<mainv, backoffv, runsv, storev, pIn, pYmd>>

NextPath ==
  \/ \E r \in PathRuns : PathResolveDate(r)
  \/ \E r \in PathRuns : PathCompose(r)

SpecPath == InitPath /\ [][NextPath]_vars

\* the four inputs of the path of run r
Four(r) == <<PrefixOf(pIn[r]), ReportTypeOf(pIn[r]), SiteOf(pIn[r]), pYmd[r]>>

\* C13: the object path is a function of (prefix, report type, site label,
\* target date) of the form prefix/reportType/siteLabel/YYYY-MM-DD.csv.gz:
\* equal inputs give equal paths, two dates with the other inputs equal give
\* two paths, nothing else takes part (not the bucket, the report id, nor the
\* time of the run when a date is given), and the load reads the file that
\* the write wrote.
C13_PathFunction ==
  /\ \A r \in PathRuns : pPc[r] # "main" =>
       /\ pIn[r].DATE # <<>> => pYmd[r] = pIn[r].DATE
       /\ pIn[r].DATE = <<>> => pYmd[r] = <<pIn[r].now[1]>>
  /\ \A r \in PathRuns : pPc[r] = "addressed" =>
       /\ Len(pPath[r]) = 8
       /\ <<pPath[r][1]>> = PrefixOf(pIn[r]) /\ <<pPath[r][3]>> = ReportTypeOf(pIn[r])
       /\ <<pPath[r][5]>> = SiteOf(pIn[r]) /\ <<pPath[r][7]>> = pYmd[r]
       /\ pPath[r][2] = "/" /\ pPath[r][4] = "/" /\ pPath[r][6] = "/"
       /\ pPath[r][8] = ".csv.gz"
       /\ pWrite[r].file = pPath[r]
       /\ pLoad[r] = <<"gs://">> \o pWrite[r].bucket \o <<"/">> \o pWrite[r].file
       /\ Four(r) = <<<<"s1">>, <<"rsoc">>, <<"acme">>, <<"2024-05-01">>>> =>
            pPath[r] = <<"s1", "/", "rsoc", "/", "acme", "/", "2024-05-01", ".csv.gz">>
  /\ \A q, r \in PathRuns : (pPc[q] = "addressed" /\ pPc[r] = "addressed") =>
       /\ Four(q) = Four(r) => pPath[q] = pPath[r]
       /\ (/\ Four(q)[1] = Four(r)[1] /\ Four(q)[2] = Four(r)[2]
           /\ Four(q)[3] = Four(r)[3] /\ Four(q)[4] # Four(r)[4]) => pPath[q] # pPath[r]

\* two runs with the same four inputs, one by its DATE and one by its clock,
\* with different buckets and report ids, have the same path; this is the
\* path of scenario E
C13_Witness ==
  /\ pPc["a"] = "addressed" /\ pPc["b"] = "addressed"
  /\ pIn["a"].DATE = <<"2024-05-01">> /\ pIn["b"].DATE = <<>>
  /\ pIn["a"].now # pIn["b"].now
  /\ pIn["a"].other # pIn["b"].other
  /\ pPath["a"] = pPath["b"]
  /\ pPath["a"] = <<"s1", "/", "rsoc", "/", "acme", "/", "2024-05-01", ".csv.gz">>


\* =========================================================== SpecRuns
\* Several runs of the program, started at any time, against one bucket and
\* one destination table.  Every run has the valid configuration of MainIdle
\* and its own S1_DATE and clock.  pollStatus is taken as a whole here (Spec
\* has its loop): it returns a content URL or throws.
Runs == {"a", "b"}

RunInputs == [DATE : {<<>>, <<"2024-05-01">>}, now : Instants]

NoReq == [status |-> 0, report_id |-> <<>>]
NoRunJob == [state |-> "NONE", errorResult |-> FALSE, read |-> "none"]

\* ymd, objectPath and gcsUri of run r (prefix, report type and site name at
\* their defaults)
YmdOf(r) == targetYMD(rIn[r].DATE, rIn[r].now)
PathOf(r) ==
  ObjectPath(<<"s1">>, <<"syndication_rsoc_online_ad_widget_daily">>, <<"site">>, YmdOf(r))
UriOf(r) == GcsUri(BUCKET_NAME, PathOf(r))

\* a run is in flight from its start until main() has returned or thrown
InFlight(r) == rPc[r] \notin {"idle", "done", "failed"}

\* a request that carries the date whether or not S1_DATE is set
RequestParams_DateAlways(DATE, ymd) ==
  {<<"report_type", <<"syndication_rsoc_online_ad_widget_daily">>>>, <<"days", <<"1">>>>,
   <<"auth_key", AUTH_KEY>>, <<"date", ymd>>}

\* new URLSearchParams({ report_type, days, auth_key }); if (DATE) qs.set('date', DATE)
RequestParams(DATE, ymd) ==
  {<<"report_type", <<"syndication_rsoc_online_ad_widget_daily">>>>, <<"days", <<"1">>>>,
   <<"auth_key", AUTH_KEY>>}
  \cup (IF DATE # <<>> THEN {<<"date", DATE>>} ELSE {})

\* the outcome of requestReport on the answer to its POST
RequestOutcome(ans) ==
  IF ~Ok(ans.status) THEN "Report request failed"
  ELSE IF ans.report_id = <<>> THEN "No report_id"
  ELSE "id"

\* a downloadToGCS that creates the write stream before it tests res.ok
DownloadOpensStream_First(status) == TRUE

\* downloadToGCS creates the write stream only after if (!res.ok) throw
DownloadOpensStream(status) == Ok(status)

\* the object store after a finished upload to name: the object of that name
\* is replaced
Put(objs, name, writer) ==
  {o \in objs : o.name # name} \cup {[name |-> name, writer |-> writer]}

\* the writer of the object that a load of uri reads
ReadObject(uri) ==
  (CHOOSE o \in objects : GcsUri(BUCKET_NAME, o.name) = uri).writer

WriteDisposition == "WRITE_APPEND"

\* the table after a load of the rows that writer wrote
ApplyLoad(t, disposition, writer) ==
  IF disposition = "WRITE_APPEND"
  THEN [t EXCEPT ![writer] = @ + 1]
  ELSE [w \in DOMAIN t |-> IF w = writer THEN 1 ELSE 0]

InitRuns ==
  /\ MainIdle /\ BackoffIdle /\ PathIdle
  /\ rIn \in [Runs -> RunInputs]
  /\ rPc = [r \in Runs |-> "idle"]
  /\ rErr = [r \in Runs |-> "none"]
  /\ rPosts = [r \in Runs |-> 0]
  /\ rQs = [r \in Runs |-> {}]
  /\ rReq = [r \in Runs |-> NoReq]
  /\ rId = [r \in Runs |-> <<>>]
  /\ rPolls = [r \in Runs |-> 0]
  /\ rGets = [r \in Runs |-> 0]
  /\ rDl = [r \in Runs |-> 0]
  /\ rStream = [r \in Runs |-> FALSE]
  /\ rJob = [r \in Runs |-> NoRunJob]
  /\ objects = {}
  /\ table = [r \in Runs |-> 0]
  /\ overlap = FALSE

RunThrow(r, kind) ==
  /\ rPc' = [rPc EXCEPT ![r] = "failed"]
  /\ rErr' = [rErr EXCEPT ![r] = kind]

\* main() of run r up to its first await: the guard passes, targetYMD(),
\* requestReport sends the POST
RunStart(r) ==
  /\ rPc[r] = "idle"
  /\ rPc' = [rPc EXCEPT ![r] = "await_request"]
  /\ rPosts' = [rPosts EXCEPT ![r] = @ + 1]
  /\ rQs' = [rQs EXCEPT ![r] = RequestParams(rIn[r].DATE, YmdOf(r))]
  /\ overlap' = (overlap \/ \E q \in Runs \ {r} : InFlight(q) /\ YmdOf(q) = YmdOf(r))
  /\ UNCHANGED <<mainv, backoffv, pathv, rIn, rErr, rReq, rId, rPolls, rGets, rDl,
                 rStream, rJob, objects, table>>

\* the answer to the POST; with an id pollStatus starts and sends its first query
RunRequestResponse(r) ==
  /\ rPc[r] = "await_request"
  /\ \E ans \in ReportResponses :
       /\ rReq' = [rReq EXCEPT ![r] = ans]
       /\ IF RequestOutcome(ans) = "id"
          THEN /\ rId' = [rId EXCEPT ![r] = ans.report_id]
               /\ rPolls' = [rPolls EXCEPT ![r] = @ + 1]
               /\ rPc' = [rPc EXCEPT ![r] = "polling"]
               /\ UNCHANGED rErr
          ELSE /\ RunThrow(r, RequestOutcome(ans))
               /\ UNCHANGED <<rId, rPolls>>
  /\ UNCHANGED <<mainv, backoffv, pathv, rIn, rPosts, rQs, rGets, rDl, rStream, rJob,
                 storev>>

\* pollStatus is over: it returns the content URL and downloadToGCS sends the
\* GET, or it throws
RunPollReturns(r) ==
  /\ rPc[r] = "polling"
  /\ \/ /\ rPc' = [rPc EXCEPT ![r] = "await_download"]
        /\ rGets' = [rGets EXCEPT ![r] = @ + 1]
        /\ UNCHANGED rErr
     \/ /\ RunThrow(r, "pollStatus threw")
        /\ UNCHANGED rGets
  /\ UNCHANGED <<mainv, backoffv, pathv, rIn, rPosts, rQs, rReq, rId, rPolls, rDl,
                 rStream, rJob, storev>>

\* the answer to the GET: if (!res.ok) throw; else the write stream is created
\* and the body piped into it
RunDownloadResponse(r) ==
  /\ rPc[r] = "await_download"
  /\ \E status \in HttpStatuses :
       /\ rDl' = [rDl EXCEPT ![r] = status]
       /\ rStream' = [rStream EXCEPT ![r] = DownloadOpensStream(status)]
       /\ IF ~Ok(status)
          THEN RunThrow(r, "Download failed")
          ELSE rPc' = [rPc EXCEPT ![r] = "piping"] /\ UNCHANGED rErr
  /\ UNCHANGED <<mainv, backoffv, pathv, rIn, rPosts, rQs, rReq, rId, rPolls, rGets,
                 rJob, storev>>

\* 'finish' of the write stream: the upload replaces the object at objectPath;
\* loadCsvGzToBQ submits the load job
RunWriteFinish(r) ==
  /\ rPc[r] = "piping"
  /\ objects' = Put(objects, PathOf(r), r)
  /\ rPc' = [rPc EXCEPT ![r] = "await_createJob"]
  /\ UNCHANGED <<mainv, backoffv, pathv, rIn, rErr, rPosts, rQs, rReq, rId, rPolls,
                 rGets, rDl, rStream, rJob, table, overlap>>

\* 'error' of the write stream: nothing is stored
RunWriteError(r) ==
  /\ rPc[r] \in {"piping", "stalled"}
  /\ RunThrow(r, "write stream error")
  /\ UNCHANGED <<mainv, backoffv, pathv, rIn, rPosts, rQs, rReq, rId, rPolls, rGets,
                 rDl, rStream, rJob, storev>>

\* 'error' of the body stream: no handler, the promise stays pending
RunBodyError(r) ==
  /\ rPc[r] = "piping"
  /\ rPc' = [rPc EXCEPT ![r] = "stalled"]
  /\ UNCHANGED <<mainv, backoffv, pathv, rIn, rErr, rPosts, rQs, rReq, rId, rPolls,
                 rGets, rDl, rStream, rJob, storev>>

\* await bq.createJob(jobConfig): the job is inserted with sourceUris
\* [gcsUri], or the submission is rejected
RunCreateJobResponse(r) ==
  /\ rPc[r] = "await_createJob"
  /\ \/ /\ rJob' = [rJob EXCEPT ![r] = [state |-> "RUNNING", errorResult |-> FALSE, read |-> "none"]]
        /\ rPc' = [rPc EXCEPT ![r] = "await_metadata"]
        /\ UNCHANGED rErr
     \/ /\ RunThrow(r, "createJob rejected")
        /\ UNCHANGED rJob
  /\ UNCHANGED <<mainv, backoffv, pathv, rIn, rPosts, rQs, rReq, rId, rPolls, rGets,
                 rDl, rStream, storev>>

\* the warehouse executes the job of run r: it reads the object that is at
\* gcsUri now and appends its rows, or it ends with an errorResult
RunJobProgress(r) ==
  /\ rJob[r].state = "RUNNING"
  /\ \/ /\ rJob' = [rJob EXCEPT ![r] =
                      [state |-> "DONE", errorResult |-> FALSE, read |-> ReadObject(UriOf(r))]]
        /\ table' = ApplyLoad(table, WriteDisposition, ReadObject(UriOf(r)))
     \/ /\ rJob' = [rJob EXCEPT ![r] = [state |-> "DONE", errorResult |-> TRUE, read |-> "none"]]
        /\ UNCHANGED table
  /\ UNCHANGED <<mainv, backoffv, pathv, rIn, rPc, rErr, rPosts, rQs, rReq, rId, rPolls,
                 rGets, rDl, rStream, objects, overlap>>

\* const [meta] = await job.getMetadata(): the job as it is now; main returns
RunMetadataResponse(r) ==
  /\ rPc[r] = "await_metadata"
  /\ \/ IF LoadThrows(rJob[r])
        THEN RunThrow(r, "BQ load error")
        ELSE rPc' = [rPc EXCEPT ![r] = "done"] /\ UNCHANGED rErr
     \/ RunThrow(r, "getMetadata rejected")
  /\ UNCHANGED <<mainv, backoffv, pathv, rIn, rPosts, rQs, rReq, rId, rPolls, rGets,
                 rDl, rStream, rJob, storev>>

NextRuns ==
  \E r \in Runs :
    \/ RunStart(r)
    \/ RunRequestResponse(r)
    \/ RunPollReturns(r)
    \/ RunDownloadResponse(r)
    \/ RunWriteFinish(r)
    \/ RunWriteError(r)
    \/ RunBodyError(r)
    \/ RunCreateJobResponse(r)
    \/ RunJobProgress(r)
    \/ RunMetadataResponse(r)

SpecRuns == InitRuns /\ [][NextRuns]_vars


RequestErrors == {"Report request failed", "No report_id"}

\* C16: a run sends exactly one report-creation call and never repeats it;
\* requestReport returns the report id exactly when the answer is a success
\* with an id, and otherwise throws the request error, after which the run
\* sends no status query; the call carries the date parameter exactly when
\* S1_DATE is set.
C16_RequestOnce ==
  \A r \in Runs :
    /\ rPosts[r] <= 1
    /\ rPc[r] # "idle" => rPosts[r] = 1
    /\ rPc[r] \notin {"idle", "await_request"} =>
         IF Ok(rReq[r].status) /\ rReq[r].report_id # <<>>
         THEN /\ rId[r] = rReq[r].report_id
              /\ rErr[r] \notin RequestErrors
              /\ rPolls[r] >= 1
         ELSE /\ rId[r] = <<>>
              /\ rPc[r] = "failed" /\ rErr[r] \in RequestErrors
              /\ rPolls[r] = 0 /\ rGets[r] = 0
    /\ rPosts[r] = 1 =>
         /\ (\E p \in rQs[r] : p[1] = "date") <=> rIn[r].DATE # <<>>
         /\ \A p \in rQs[r] : p[1] = "date" => p[2] = rIn[r].DATE

\* one run with a date got a success without id and stopped, the other
\* without a date got an id and has queried the status
C16_Witness ==
  /\ rIn["a"].DATE # <<>> /\ rErr["a"] = "No report_id" /\ rReq["a"].status = 200
  /\ rIn["b"].DATE = <<>> /\ rPc["b"] = "polling" /\ rId["b"] # <<>>

\* C17: the content is fetched with one GET that is never repeated; when the
\* answer is not a success the run fails with the download error, no write
\* stream has been created, no object of the store comes from the run and no
\* load job has been submitted.
C17_DownloadOnce ==
  \A r \in Runs :
    /\ rGets[r] <= 1
    /\ rDl[r] # 0 => rGets[r] = 1
    /\ rErr[r] = "Download failed" => (rDl[r] # 0 /\ ~Ok(rDl[r]))
    /\ (rDl[r] # 0 /\ ~Ok(rDl[r])) =>
         /\ rPc[r] = "failed" /\ rErr[r] = "Download failed"
         /\ ~rStream[r]
         /\ \A o \in objects : o.writer # r
         /\ rJob[r] = NoRunJob /\ table[r] = 0

\* the download of run a failed while the object of run b is at its path
C17_Witness ==
  /\ rErr["a"] = "Download failed" /\ rDl["a"] = 404
  /\ \E o \in objects : o.name = PathOf("a") /\ o.writer = "b"

RECURSIVE SumOver(_, _)
SumOver(f, S) ==
  IF S = {} THEN 0
  ELSE LET x == CHOOSE y \in S : TRUE IN f[x] + SumOver(f, S \ {x})

\* the copies in the table of the objects written to name
Copies(name) == SumOver(table, {w \in Runs : PathOf(w) = name})

\* C14: after n successful runs with the same path inputs (and no other run
\* for that path), the store holds exactly one object at the path and the
\* table holds n appended copies of the report rows.
C14_OneObjectNCopies ==
  \A q \in Runs :
    LET same == {r \in Runs : PathOf(r) = PathOf(q)}
        succeeded == {r \in same : rPc[r] = "done"}
    IN  (\A r \in same : rPc[r] \in {"idle", "done"}) =>
          /\ succeeded # {} => Cardinality({o \in objects : o.name = PathOf(q)}) = 1
          /\ Copies(PathOf(q)) = Cardinality(succeeded)

\* C18: as long as no two runs for one date have been in flight together,
\* every load has read the object that its own run wrote.
C18_OwnObjectWhenSerial ==
  ~overlap =>
    \A r \in Runs :
      (rJob[r].state = "DONE" /\ ~rJob[r].errorResult) => rJob[r].read = r

====
